---- MODULE Spec2Model ----
(***************************************************************************)
(* Grid search planning engine of mobile-robot-search: the six planners    *)
(* {A*, BFS, DFS} x {graph, tree} of CodeBase/Search, the occupancy grid   *)
(* they read (CodeBase/Environment/grid_map.py) and the NavigationSystem   *)
(* driver (CodeBase/navigation_system.py).                                 *)
(*                                                                         *)
(* A cell is a pair <<x, y>>.  In the searches a cost is a pair <<a, b>>    *)
(* standing for the real number (a + b*sqrt(2)) * resolution: every g, h   *)
(* and f is a sum of straight steps (1 * res) and diagonal steps           *)
(* (sqrt(2) * res), and comparisons are decided by integer arithmetic      *)
(* (CostLt).  The binary64 values heuristic() and cost() return are        *)
(* modelled bit for bit in the section on heuristic_double.                *)
(*                                                                         *)
(* One action is one call of plan() up to its while loop, or one iteration *)
(* of that loop (pop, bookkeeping, goal test, the whole neighbour loop).   *)
(* The visualizer is None, as in the benchmark callers, except in SpecVis, *)
(* where the calls made on an attached visualizer are logged.              *)
(***************************************************************************)
EXTENDS Integers, Sequences, FiniteSets, TLC

\* ------------------------------------------------------------------------
\* Bounds of the model
\* ------------------------------------------------------------------------
GridW == 3
GridH == 2
MaxObstacles == 1
MaxInflated == 1
Budget == 4
DeepBudget == 12
StepCap == 12
MaxCalls == 2

VARIABLES
    width, height,      \* GridMap.width, GridMap.height
    obstacles,          \* cells with GridMap.grid[gy][gx] == 1
    inflated,           \* cells with GridMap.inflated_grid[gy][gx] == True
    motion,             \* Planner.motion_model: "4n" or "8n"
    start, goal,        \* arguments of plan() / env_data["start"], ["goal"]
    kind,               \* the planner class instantiated
    max_expansions,     \* exec_config["max_expansions"] / constructor argument
    entry,              \* how plan() is reached: "plan", "env" or "robot"
    expanded_count,     \* planner.expanded_count
    expansion_map,      \* planner.expansion_map: cell -> count
    counter,            \* planner.counter (visit-id counter of the tree planners)
    pc,                 \* "nav", "ready", "running", "done", "raised"
    exit,               \* the return statement plan() left through
    OPEN,               \* the frontier (heapdict, heap list, deque or stack)
    CLOSED,             \* the closed set of the graph planners
    in_open,            \* BFS graph: every cell ever enqueued
    parent,             \* parent links (per cell, or per <<cell, visit_id>>)
    NODES,              \* A* graph: cell -> Node;  DFS tree: the DFSNode objects
    result,             \* value returned by plan()
    history,            \* what the caller read after each plan() call
    path, cur_state, cur_vid, visited,  \* locals of reconstruct_path_3d
    other,              \* a second planner instance whose thread is not running
    visualizer          \* planner.visualizer and the draw calls made on it

vars == <<width, height, obstacles, inflated, motion, start, goal, kind,
          max_expansions, entry, expanded_count, expansion_map, counter, pc,
          exit, OPEN, CLOSED, in_open, parent, NODES, result, history,
          path, cur_state, cur_vid, visited, other, visualizer>>

inputs == <<width, height, obstacles, inflated, motion, start, goal, kind,
            max_expansions, entry>>

walk == <<path, cur_state, cur_vid, visited>>

Kinds == {"AStarGraph", "AStarTree", "BFSGraph", "BFSTree", "DFSGraph", "DFSTree"}
GraphKinds == {"AStarGraph", "BFSGraph", "DFSGraph"}
TreeKinds == {"AStarTree", "BFSTree", "DFSTree"}

\* Python's None where a cell, a visit id or a node reference is expected
NoCell == <<-1, -1>>
NoVid == -1
NoNode == 0

\* values returned by plan(): None or a list of cells
Pending == [tag |-> "pending", path |-> <<>>]
NoneResult == [tag |-> "none", path |-> <<>>]
PathResult(p) == [tag |-> "path", path |-> p]

\* ------------------------------------------------------------------------
\* Occupancy grid
\* ------------------------------------------------------------------------
CellsOf(w, h) == (0 .. w - 1) \X (0 .. h - 1)
Cells == CellsOf(width, height)

is_inside(c) == 0 <= c[1] /\ c[1] < width /\ 0 <= c[2] /\ c[2] < height
is_obstacle(c) == c \in obstacles
is_inflated(c) == c \in inflated

\* ------------------------------------------------------------------------
\* Costs: <<a, b>> is (a + b*sqrt(2)) * res
\* ------------------------------------------------------------------------
Abs(n) == IF n < 0 THEN -n ELSE n
Max(a, b) == IF a >= b THEN a ELSE b
Min(a, b) == IF a <= b THEN a ELSE b

Zero == <<0, 0>>
CostAdd(p, q) == <<p[1] + q[1], p[2] + q[2]>>

\* p < q on the reals: (p1 - q1) < (q2 - p2) * sqrt(2)
CostLt(p, q) ==
    LET d == p[1] - q[1]
        e == q[2] - p[2]
    IN  IF e >= 0
        THEN d < 0 \/ d * d < 2 * e * e
        ELSE d < 0 /\ d * d > 2 * e * e

\* ------------------------------------------------------------------------
\* Motion model, heuristic, neighbour generator
\* ------------------------------------------------------------------------
Moves4 == << <<1, 0>>, <<-1, 0>>, <<0, 1>>, <<0, -1>> >>
Moves8_diagonals_first == << <<1, 1>>, <<1, -1>>, <<-1, 1>>, <<-1, -1>>,
                             <<1, 0>>, <<-1, 0>>, <<0, 1>>, <<0, -1>> >>

Moves8 == << <<1, 0>>, <<-1, 0>>, <<0, 1>>, <<0, -1>>,
             <<1, 1>>, <<1, -1>>, <<-1, 1>>, <<-1, -1>> >>

moves == IF motion = "4n" THEN Moves4 ELSE Moves8

cost(a, b) == IF a[1] # b[1] /\ a[2] # b[2] THEN <<0, 1>> ELSE <<1, 0>>

heuristic(a, b) ==
    LET dx == Abs(a[1] - b[1])
        dy == Abs(a[2] - b[2])
    IN  IF motion = "4n"
        THEN <<dx + dy, 0>>
        ELSE <<Max(dx, dy) - Min(dx, dy), Min(dx, dy)>>

passable_ignoring_inflation(c) == is_inside(c) /\ ~is_obstacle(c)

passable(c) == is_inside(c) /\ ~is_obstacle(c) /\ ~is_inflated(c)

get_neighbors(c) ==
    LET cand == [i \in 1 .. Len(moves) |-> <<c[1] + moves[i][1], c[2] + moves[i][2]>>]
    IN  SelectSeq(cand, passable)

\* ------------------------------------------------------------------------
\* Small utilities
\* ------------------------------------------------------------------------
Reverse(s) == [i \in 1 .. Len(s) |-> s[Len(s) + 1 - i]]
Put(f, k, v) == (k :> v) @@ f
Without(f, k) == [x \in (DOMAIN f) \ {k} |-> f[x]]
Bump_by_two(m, c) == Put(m, c, (IF c \in DOMAIN m THEN m[c] ELSE 0) + 2)

Bump(m, c) == Put(m, c, (IF c \in DOMAIN m THEN m[c] ELSE 0) + 1)

\* ------------------------------------------------------------------------
\* Initial states: a planner freshly constructed on a grid
\* ------------------------------------------------------------------------
\* Scenario B of the specification: 5x5, wall at x = 2 for y = 0..3
ScenarioBWall == {<<2, 0>>, <<2, 1>>, <<2, 2>>, <<2, 3>>}
ScenarioBBudget == 50

\* inflated cells are free cells near an obstacle (inflator.py skips obstacle
\* cells and marks only cells within the robot radius of some obstacle)
SmallGridMap ==
    /\ width = GridW
    /\ height = GridH
    /\ obstacles \in {S \in SUBSET CellsOf(GridW, GridH) : Cardinality(S) <= MaxObstacles}
    /\ inflated \in {S \in SUBSET (CellsOf(GridW, GridH) \ obstacles) :
                        /\ Cardinality(S) <= MaxInflated
                        /\ (S # {} => obstacles # {})}
    /\ motion \in {"4n", "8n"}
    /\ start \in CellsOf(GridW, GridH)
    /\ goal \in CellsOf(GridW, GridH)

SmallGrid == SmallGridMap /\ max_expansions = Budget

ScenarioBGrid ==
    /\ width = 5
    /\ height = 5
    /\ obstacles = ScenarioBWall
    /\ inflated = {}
    /\ motion = "8n"
    /\ start = <<0, 0>>
    /\ goal = <<4, 0>>
    /\ max_expansions = ScenarioBBudget

\* Scenario A of the specification: 3x3, free interior cell (1,1) inside a
\* ring of obstacles, start = goal = (1,1)
ScenarioARing == CellsOf(3, 3) \ {<<1, 1>>}

ScenarioAGrid ==
    /\ width = 3
    /\ height = 3
    /\ obstacles = ScenarioARing
    /\ inflated = {}
    /\ motion \in {"4n", "8n"}
    /\ start = <<1, 1>>
    /\ goal = <<1, 1>>
    /\ max_expansions = Budget

\* Planner.__init__ of each class, and no plan() call made yet
FreshPlanner ==
    /\ expanded_count = 0
    /\ expansion_map = <<>>
    /\ counter = 0
    /\ exit = "none"
    /\ OPEN = <<>>
    /\ CLOSED = {}
    /\ in_open = {}
    /\ parent = <<>>
    /\ NODES = <<>>
    /\ result = Pending
    /\ history = <<>>

\* the attributes and plan() locals of a planner instance, as a record
Instance(ec, em, ctr, p, ex, open, closed, inopen, par, nodes, res) ==
    [expanded_count |-> ec, expansion_map |-> em, counter |-> ctr, pc |-> p,
     exit |-> ex, OPEN |-> open, CLOSED |-> closed, in_open |-> inopen,
     parent |-> par, NODES |-> nodes, result |-> res]

FreshInstance == Instance(0, <<>>, 0, "ready", "none", <<>>, {}, {}, <<>>, <<>>, Pending)
NoInstance == Instance(0, <<>>, 0, "absent", "none", <<>>, {}, {}, <<>>, <<>>, Pending)

\* visualizer=None, or a visualizer object with the cells passed so far to
\* draw_explored and to draw_frontier
NoVisualizer == [attached |-> FALSE, explored |-> <<>>, frontier |-> <<>>]
AttachedVisualizer == [attached |-> TRUE, explored |-> <<>>, frontier |-> <<>>]

\* "if vis: vis.draw_explored(..)" for the cells of e, then
\* "if vis: vis.draw_frontier(..)" for the cells of f
Draw(e, f) ==
    visualizer' = IF visualizer.attached
                  THEN [visualizer EXCEPT !.explored = @ \o e, !.frontier = @ \o f]
                  ELSE visualizer

\* no reconstruct_path_3d call is in progress
NoWalk ==
    /\ path = <<>>
    /\ cur_state = NoCell
    /\ cur_vid = NoVid
    /\ visited = {}

Init ==
    /\ SmallGrid \/ ScenarioBGrid \/ ScenarioAGrid
    /\ kind \in Kinds
    /\ entry = "plan"
    /\ pc = "ready"
    /\ FreshPlanner
    /\ NoWalk
    /\ other = NoInstance
    /\ visualizer = NoVisualizer

\* plan() returns res through the return statement named how; the caller then
\* reads planner.expanded_count and planner.expansion_map
Return(res, how) ==
    /\ pc' = "done"
    /\ exit' = how
    /\ result' = res
    /\ history' = Append(history, [result |-> res,
                                   expanded_count |-> expanded_count',
                                   expansion_map |-> expansion_map'])

Continue ==
    /\ pc' = "running"
    /\ UNCHANGED <<exit, result, history>>

\* ------------------------------------------------------------------------
\* A* graph-based (astar_graph_based.py)
\* ------------------------------------------------------------------------
Node_without_heuristic(s, g, f, p) == [state |-> s, g |-> g, f |-> g, parent |-> p]

Node(s, g, f, p) == [state |-> s, g |-> g, f |-> f, parent |-> p]

\* reconstruct_path: follow Node.parent from node to the root, then reverse
RECURSIVE NodeChain(_, _)
NodeChain(nodes, s) ==
    IF s = NoCell THEN <<>> ELSE <<s>> \o NodeChain(nodes, nodes[s].parent)

AStarGraph_reconstruct_path(nodes, s) == Reverse(NodeChain(nodes, s))

\* heapdict.popitem(): an entry of lowest priority (the order among entries of
\* equal priority is internal to the heapdict library)
MinKeys_any(open) == DOMAIN open

MinKeys(open) ==
    {c \in DOMAIN open : \A d \in DOMAIN open : ~CostLt(open[d], open[c])}

Improves_always(new_f, old_f) == TRUE

Improves(new_f, old_f) == CostLt(new_f, old_f)

RECURSIVE AStarGraph_relax_keeps_parent(_, _, _, _, _)
AStarGraph_relax_keeps_parent(nbrs, i, current, closed, st) ==
    IF i > Len(nbrs) THEN st
    ELSE
        LET v == nbrs[i]
            new_g == CostAdd(st.nodes[current].g, cost(current, v))
            new_f == CostAdd(new_g, heuristic(v, goal))
            fresh == [open |-> Put(st.open, v, new_f),
                      nodes |-> Put(st.nodes, v, Node(v, new_g, new_f, current))]
            updated == [open |-> Put(st.open, v, new_f),
                        nodes |-> Put(st.nodes, v,
                                      Node(v, new_g, new_f, st.nodes[v].parent))]
        IN  IF v \in closed
            THEN AStarGraph_relax_keeps_parent(nbrs, i + 1, current, closed, st)
            ELSE IF v \notin DOMAIN st.open
            THEN AStarGraph_relax_keeps_parent(nbrs, i + 1, current, closed, fresh)
            ELSE IF Improves(new_f, st.open[v])
            THEN AStarGraph_relax_keeps_parent(nbrs, i + 1, current, closed, updated)
            ELSE AStarGraph_relax_keeps_parent(nbrs, i + 1, current, closed, st)

\* the neighbour loop of plan(): st = [open, nodes] after neighbours 1..i-1
RECURSIVE AStarGraph_relax(_, _, _, _, _)
AStarGraph_relax(nbrs, i, current, closed, st) ==
    IF i > Len(nbrs) THEN st
    ELSE
        LET v == nbrs[i]
            new_g == CostAdd(st.nodes[current].g, cost(current, v))
            new_f == CostAdd(new_g, heuristic(v, goal))
            fresh == [open |-> Put(st.open, v, new_f),
                      nodes |-> Put(st.nodes, v, Node(v, new_g, new_f, current))]
        IN  IF v \in closed
            THEN AStarGraph_relax(nbrs, i + 1, current, closed, st)
            ELSE IF v \notin DOMAIN st.open
            THEN AStarGraph_relax(nbrs, i + 1, current, closed, fresh)
            ELSE IF Improves(new_f, st.open[v])
            THEN AStarGraph_relax(nbrs, i + 1, current, closed, fresh)
            ELSE AStarGraph_relax(nbrs, i + 1, current, closed, st)

\* plan(), lines 163-178: OPEN, CLOSED, NODES created, start node inserted
AStarGraph_plan ==
    /\ kind = "AStarGraph"
    /\ pc = "ready"
    /\ OPEN' = Put(<<>>, start, heuristic(start, goal))
    /\ CLOSED' = {}
    /\ NODES' = Put(<<>>, start, Node(start, Zero, heuristic(start, goal), NoCell))
    /\ Continue
    /\ UNCHANGED <<inputs, visualizer, other, walk, expanded_count, expansion_map, counter, in_open, parent>>

\* one test of "while OPEN" and, when OPEN is not empty, one iteration
AStarGraph_step ==
    /\ kind = "AStarGraph"
    /\ pc = "running"
    /\ IF DOMAIN OPEN = {}
       THEN /\ UNCHANGED <<expanded_count, expansion_map, OPEN, CLOSED, NODES, visualizer>>
            /\ Return(NoneResult, "exhausted")
       ELSE \E current \in MinKeys(OPEN) :
            /\ expanded_count' = expanded_count + 1
            /\ expansion_map' = Bump(expansion_map, current)
            /\ IF current = goal
               THEN /\ OPEN' = Without(OPEN, current)
                    /\ UNCHANGED <<CLOSED, NODES, visualizer>>
                    /\ Return(PathResult(AStarGraph_reconstruct_path(NODES, current)), "goal")
               ELSE LET closed == CLOSED \cup {current}
                        rest == Without(OPEN, current)
                        st == AStarGraph_relax(get_neighbors(current), 1, current, closed,
                                               [open |-> rest, nodes |-> NODES])
                        \* draw_frontier follows each "OPEN[v] = new_f"
                        Written(v) == /\ v \notin closed
                                      /\ (v \notin DOMAIN rest \/ st.open[v] # rest[v])
                    IN  /\ CLOSED' = closed
                        /\ OPEN' = st.open
                        /\ NODES' = st.nodes
                        /\ Draw(<<current>>, SelectSeq(get_neighbors(current), Written))
                        /\ Continue
    /\ UNCHANGED <<inputs, other, walk, counter, in_open, parent>>

\* ------------------------------------------------------------------------
\* BFS graph-based (bfs.py, class BFSPlanner_graphbased)
\* ------------------------------------------------------------------------
\* reconstruct_path(parent, start, goal): while current != start follow parent
RECURSIVE ParentChain(_, _, _)
ParentChain(par, s, c) ==
    IF c = s THEN <<c>> ELSE <<c>> \o ParentChain(par, s, par[c])

Graph_reconstruct_path(par, s, g) == Reverse(ParentChain(par, s, g))

RECURSIVE BFSGraph_expand_lifo(_, _, _, _, _)
BFSGraph_expand_lifo(nbrs, i, current, closed, st) ==
    IF i > Len(nbrs) \/ st.found THEN st
    ELSE
        LET v == nbrs[i]
        IN  IF v \notin closed /\ v \notin st.in_open
            THEN IF v = goal
                 THEN [st EXCEPT !.parent = Put(st.parent, v, current), !.found = TRUE]
                 ELSE BFSGraph_expand_lifo(nbrs, i + 1, current, closed,
                        [queue |-> <<v>> \o st.queue,
                         in_open |-> st.in_open \cup {v},
                         parent |-> Put(st.parent, v, current),
                         found |-> FALSE])
            ELSE BFSGraph_expand_lifo(nbrs, i + 1, current, closed, st)

\* the neighbour loop: st = [queue, in_open, parent, found]; the loop is left
\* by the return statement as soon as an unseen neighbour is the goal
RECURSIVE BFSGraph_expand(_, _, _, _, _)
BFSGraph_expand(nbrs, i, current, closed, st) ==
    IF i > Len(nbrs) \/ st.found THEN st
    ELSE
        LET v == nbrs[i]
        IN  IF v \notin closed /\ v \notin st.in_open
            THEN IF v = goal
                 THEN [st EXCEPT !.parent = Put(st.parent, v, current), !.found = TRUE]
                 ELSE BFSGraph_expand(nbrs, i + 1, current, closed,
                        [queue |-> Append(st.queue, v),
                         in_open |-> st.in_open \cup {v},
                         parent |-> Put(st.parent, v, current),
                         found |-> FALSE])
            ELSE BFSGraph_expand(nbrs, i + 1, current, closed, st)

\* plan(), lines 81-100: early exit when start == goal, else queue created
BFSGraph_plan ==
    /\ kind = "BFSGraph"
    /\ pc = "ready"
    /\ UNCHANGED <<inputs, visualizer, other, walk, expanded_count, expansion_map, counter, NODES>>
    /\ IF start = goal
       THEN /\ UNCHANGED <<OPEN, in_open, CLOSED, parent>>
            /\ Return(PathResult(<<start>>), "trivial")
       ELSE /\ OPEN' = <<start>>
            /\ in_open' = {start}
            /\ CLOSED' = {}
            /\ parent' = <<>>
            /\ Continue

BFSGraph_step ==
    /\ kind = "BFSGraph"
    /\ pc = "running"
    /\ IF OPEN = <<>>
       THEN /\ UNCHANGED <<expanded_count, expansion_map, OPEN, in_open, CLOSED, parent,
                           visualizer>>
            /\ Return(NoneResult, "exhausted")
       ELSE LET current == Head(OPEN)
                closed == CLOSED \cup {current}
                st == BFSGraph_expand(get_neighbors(current), 1, current, closed,
                                      [queue |-> Tail(OPEN), in_open |-> in_open,
                                       parent |-> parent, found |-> FALSE])
                \* lines 114-118 and 143-147: draw_inflated instead of
                \* draw_explored / draw_frontier for an inflated cell
                NotInflated(c) == ~is_inflated(c)
                enqueued == SubSeq(st.queue, Len(OPEN), Len(st.queue))
            IN  /\ Draw(SelectSeq(<<current>>, NotInflated), SelectSeq(enqueued, NotInflated))
                /\ expanded_count' = expanded_count + 1
                /\ expansion_map' = Bump(expansion_map, current)
                /\ CLOSED' = closed
                /\ OPEN' = st.queue
                /\ in_open' = st.in_open
                /\ parent' = st.parent
                /\ IF st.found
                   THEN Return(PathResult(Graph_reconstruct_path(st.parent, start, goal)), "goal")
                   ELSE Continue
    /\ UNCHANGED <<inputs, other, walk, counter, NODES>>

\* ------------------------------------------------------------------------
\* DFS graph-based (dfs_graph_based.py)
\* ------------------------------------------------------------------------
OpenStates_top_only(stack) ==
    IF stack = <<>> THEN {} ELSE {stack[Len(stack)][1]}

\* OPEN is a stack of <<state, parent state>>, top last
OpenStates(stack) == {stack[i][1] : i \in 1 .. Len(stack)}

RECURSIVE DFSGraph_push_without_open_check(_, _, _, _, _)
DFSGraph_push_without_open_check(nbrs, i, v, closed, stack) ==
    IF i > Len(nbrs) THEN stack
    ELSE IF nbrs[i] \notin closed
         THEN DFSGraph_push_without_open_check(nbrs, i + 1, v, closed,
                                               Append(stack, <<nbrs[i], v>>))
         ELSE DFSGraph_push_without_open_check(nbrs, i + 1, v, closed, stack)

\* the neighbour loop: a child is pushed unless it is in CLOSED or on the stack
RECURSIVE DFSGraph_push(_, _, _, _, _)
DFSGraph_push(nbrs, i, v, closed, stack) ==
    IF i > Len(nbrs) THEN stack
    ELSE IF nbrs[i] \notin closed /\ nbrs[i] \notin OpenStates(stack)
         THEN DFSGraph_push(nbrs, i + 1, v, closed, Append(stack, <<nbrs[i], v>>))
         ELSE DFSGraph_push(nbrs, i + 1, v, closed, stack)

DFSGraph_plan ==
    /\ kind = "DFSGraph"
    /\ pc = "ready"
    /\ OPEN' = << <<start, NoCell>> >>
    /\ parent' = <<>>
    /\ CLOSED' = {}
    /\ Continue
    /\ UNCHANGED <<inputs, visualizer, other, walk, expanded_count, expansion_map, counter, in_open, NODES>>

DFSGraph_step ==
    /\ kind = "DFSGraph"
    /\ pc = "running"
    /\ IF OPEN = <<>>
       THEN /\ UNCHANGED <<expanded_count, expansion_map, OPEN, CLOSED, parent, visualizer>>
            /\ Return(NoneResult, "exhausted")
       ELSE LET v == OPEN[Len(OPEN)][1]
                p == OPEN[Len(OPEN)][2]
                rest == SubSeq(OPEN, 1, Len(OPEN) - 1)
                par == IF p # NoCell THEN Put(parent, v, p) ELSE parent
                stack == DFSGraph_push(get_neighbors(v), 1, v, CLOSED \cup {v}, rest)
                pushed == [i \in 1 .. Len(stack) - Len(rest) |-> stack[Len(rest) + i][1]]
            IN  IF v \in CLOSED
                THEN /\ OPEN' = rest
                     /\ UNCHANGED <<expanded_count, expansion_map, CLOSED, parent, visualizer>>
                     /\ Continue
                ELSE /\ parent' = par
                     /\ expanded_count' = expanded_count + 1
                     /\ expansion_map' = Bump(expansion_map, v)
                     /\ IF v = goal
                        THEN /\ OPEN' = rest
                             /\ UNCHANGED CLOSED
                             /\ Draw(<<v>>, <<>>)
                             /\ Return(PathResult(Graph_reconstruct_path(par, start, goal)), "goal")
                        ELSE /\ CLOSED' = CLOSED \cup {v}
                             /\ OPEN' = stack
                             /\ Draw(<<v>>, pushed)
                             /\ Continue
    /\ UNCHANGED <<inputs, other, walk, counter, in_open, NODES>>

\* ------------------------------------------------------------------------
\* DFS graph-based of Search/dfs.py, the class the benchmark comparator
\* imports: kind is "DFS", OPEN is its stack, CLOSED its closed set
\* ------------------------------------------------------------------------
DFS_plan ==
    /\ kind = "DFS"
    /\ pc = "ready"
    /\ OPEN' = << <<start, NoCell>> >>
    /\ parent' = <<>>
    /\ CLOSED' = {}
    /\ Continue
    /\ UNCHANGED <<inputs, visualizer, other, walk, expanded_count, expansion_map, counter,
                   in_open, NODES>>

\* one iteration of "while stack": every popped entry is expanded
DFS_step ==
    /\ kind = "DFS"
    /\ pc = "running"
    /\ IF OPEN = <<>>
       THEN /\ UNCHANGED <<expanded_count, expansion_map, OPEN, CLOSED, parent, visualizer>>
            /\ Return(NoneResult, "exhausted")
       ELSE LET v == OPEN[Len(OPEN)][1]
                p == OPEN[Len(OPEN)][2]
                rest == SubSeq(OPEN, 1, Len(OPEN) - 1)
                par == IF p # NoCell THEN Put(parent, v, p) ELSE parent
                stack == DFSGraph_push(get_neighbors(v), 1, v, CLOSED \cup {v}, rest)
                pushed == [i \in 1 .. Len(stack) - Len(rest) |-> stack[Len(rest) + i][1]]
            IN  /\ parent' = par
                /\ expanded_count' = expanded_count + 1
                /\ expansion_map' = Bump(expansion_map, v)
                /\ IF v = goal
                   THEN /\ OPEN' = rest
                        /\ UNCHANGED CLOSED
                        /\ Draw(<<v>>, <<>>)
                        /\ Return(PathResult(Graph_reconstruct_path(par, start, goal)), "goal")
                   ELSE /\ CLOSED' = CLOSED \cup {v}
                        /\ OPEN' = stack
                        /\ Draw(<<v>>, pushed)
                        /\ Continue
    /\ UNCHANGED <<inputs, other, walk, counter, in_open, NODES>>

\* ------------------------------------------------------------------------
\* Tree-based planners: records <<state, visit_id>> and their parent links
\* ------------------------------------------------------------------------
\* reconstruct_path_3d (astar_tree_based.py and bfs.py, same body): the cells
\* appended to path, in the order of the walk (goal first)
RECURSIVE Walk3d(_, _, _, _, _)
Walk3d(par, s, c, v, seen) ==
    IF c = s THEN <<c>>
    ELSE IF <<c, v>> \in seen THEN <<c>>
    ELSE IF <<c, v>> \notin DOMAIN par THEN <<c>>
    ELSE <<c>> \o Walk3d(par, s, par[<<c, v>>][1],
                                 par[<<c, v>>][2],
                                 seen \cup {<<c, v>>})

reconstruct_path_3d_unreversed(par, s, g, vid) == Walk3d(par, s, g, vid, {})

reconstruct_path_3d(par, s, g, vid) == Reverse(Walk3d(par, s, g, vid, {}))

BudgetReached_off_by_one(count, limit) == count > limit

\* "if self.expanded_count >= self.max_expansions" of BFS tree and DFS tree
BudgetReached(count, limit) == count >= limit

\* ------------------------------------------------------------------------
\* A* tree-based (astar_tree_based.py)
\* ------------------------------------------------------------------------
\* OPEN holds tuples <<f, g, visit_id, state>>; heapq.heappop returns the
\* smallest tuple: by f, then g, then visit_id (visit ids are distinct)
TupleLt(r, q) ==
    \/ CostLt(r[1], q[1])
    \/ r[1] = q[1] /\ CostLt(r[2], q[2])
    \/ r[1] = q[1] /\ r[2] = q[2] /\ r[3] < q[3]

HeapMin_newest(open) == CHOOSE r \in open : \A q \in open : q[3] <= r[3]

HeapMin(open) == CHOOSE r \in open : \A q \in open \ {r} : TupleLt(r, q)

RECURSIVE AStarTree_expand_links_own_cell(_, _, _, _, _, _)
AStarTree_expand_links_own_cell(nbrs, i, current, vid, g, st) ==
    IF i > Len(nbrs) THEN st
    ELSE
        LET child == nbrs[i]
            ng == CostAdd(g, cost(current, child))
            nf == CostAdd(ng, heuristic(child, goal))
            child_vid == st.counter
        IN  AStarTree_expand_links_own_cell(nbrs, i + 1, current, vid, g,
                [open |-> st.open \cup {<<nf, ng, child_vid, child>>},
                 parent |-> Put(st.parent, <<child, child_vid>>, <<child, vid>>),
                 counter |-> st.counter + 1])

\* the neighbour loop: st = [open, parent, counter]
RECURSIVE AStarTree_expand(_, _, _, _, _, _)
AStarTree_expand(nbrs, i, current, vid, g, st) ==
    IF i > Len(nbrs) THEN st
    ELSE
        LET child == nbrs[i]
            ng == CostAdd(g, cost(current, child))
            nf == CostAdd(ng, heuristic(child, goal))
            child_vid == st.counter
        IN  AStarTree_expand(nbrs, i + 1, current, vid, g,
                [open |-> st.open \cup {<<nf, ng, child_vid, child>>},
                 parent |-> Put(st.parent, <<child, child_vid>>, <<current, vid>>),
                 counter |-> st.counter + 1])

AStarTree_plan ==
    /\ kind = "AStarTree"
    /\ pc = "ready"
    /\ OPEN' = {<<heuristic(start, goal), Zero, 0, start>>}
    /\ parent' = <<>>
    /\ counter' = 1
    /\ Continue
    /\ UNCHANGED <<inputs, visualizer, other, walk, expanded_count, expansion_map, CLOSED, in_open, NODES>>

\* the loop has no expansion limit; StepCap only bounds the model
AStarTree_step ==
    /\ kind = "AStarTree"
    /\ pc = "running"
    /\ expanded_count < StepCap
    /\ IF OPEN = {}
       THEN /\ UNCHANGED <<expanded_count, expansion_map, OPEN, parent, counter, visualizer>>
            /\ Return(NoneResult, "exhausted")
       ELSE LET top == HeapMin(OPEN)
                g == top[2]
                vid == top[3]
                current == top[4]
                st == AStarTree_expand(get_neighbors(current), 1, current, vid, g,
                                       [open |-> OPEN \ {top}, parent |-> parent,
                                        counter |-> counter])
            IN  /\ expanded_count' = expanded_count + 1
                /\ expansion_map' = Bump(expansion_map, current)
                /\ IF current = goal
                   THEN /\ OPEN' = OPEN \ {top}
                        /\ UNCHANGED <<parent, counter, visualizer>>
                        /\ Return(PathResult(reconstruct_path_3d(parent, start, goal, vid)), "goal")
                   ELSE /\ OPEN' = st.open
                        /\ parent' = st.parent
                        /\ counter' = st.counter
                        /\ Draw(<<current>>, get_neighbors(current))
                        /\ Continue
    /\ UNCHANGED <<inputs, other, walk, CLOSED, in_open, NODES>>

\* ------------------------------------------------------------------------
\* BFS tree-based (bfs.py, class BFSPlanner_treesearch)
\* ------------------------------------------------------------------------
RECURSIVE BFSTree_expand_links_child_vid(_, _, _, _, _)
BFSTree_expand_links_child_vid(nbrs, i, cur, vid, st) ==
    IF i > Len(nbrs) THEN st
    ELSE
        LET child == nbrs[i]
            child_vid == st.counter
        IN  BFSTree_expand_links_child_vid(nbrs, i + 1, cur, vid,
                [queue |-> Append(st.queue, <<child, child_vid>>),
                 parent |-> Put(st.parent, <<child, child_vid>>, <<cur, child_vid>>),
                 counter |-> st.counter + 1])

\* the neighbour loop: st = [queue, parent, counter]
RECURSIVE BFSTree_expand(_, _, _, _, _)
BFSTree_expand(nbrs, i, cur, vid, st) ==
    IF i > Len(nbrs) THEN st
    ELSE
        LET child == nbrs[i]
            child_vid == st.counter
        IN  BFSTree_expand(nbrs, i + 1, cur, vid,
                [queue |-> Append(st.queue, <<child, child_vid>>),
                 parent |-> Put(st.parent, <<child, child_vid>>, <<cur, vid>>),
                 counter |-> st.counter + 1])

BFSTree_plan_counter_zero ==
    /\ kind = "BFSTree"
    /\ pc = "ready"
    /\ OPEN' = << <<start, 0>> >>
    /\ parent' = Put(<<>>, <<start, 0>>, <<NoCell, NoVid>>)
    /\ counter' = 0
    /\ Continue
    /\ UNCHANGED <<inputs, visualizer, other, walk, expanded_count, expansion_map, CLOSED, in_open, NODES>>

BFSTree_plan ==
    /\ kind = "BFSTree"
    /\ pc = "ready"
    /\ OPEN' = << <<start, 0>> >>
    /\ parent' = Put(<<>>, <<start, 0>>, <<NoCell, NoVid>>)
    /\ counter' = 1
    /\ Continue
    /\ UNCHANGED <<inputs, visualizer, other, walk, expanded_count, expansion_map, CLOSED, in_open, NODES>>

BFSTree_step ==
    /\ kind = "BFSTree"
    /\ pc = "running"
    /\ IF OPEN = <<>>
       THEN /\ UNCHANGED <<expanded_count, expansion_map, OPEN, parent, counter, visualizer>>
            /\ Return(NoneResult, "exhausted")
       ELSE IF BudgetReached(expanded_count, max_expansions)
       THEN /\ UNCHANGED <<expanded_count, expansion_map, OPEN, parent, counter, visualizer>>
            /\ Return(NoneResult, "budget")
       ELSE LET cur == Head(OPEN)[1]
                vid == Head(OPEN)[2]
                st == BFSTree_expand(get_neighbors(cur), 1, cur, vid,
                                     [queue |-> Tail(OPEN), parent |-> parent,
                                      counter |-> counter])
            IN  /\ expanded_count' = expanded_count + 1
                /\ expansion_map' = Bump(expansion_map, cur)
                /\ IF cur = goal
                   THEN /\ OPEN' = Tail(OPEN)
                        /\ UNCHANGED <<parent, counter>>
                        /\ Draw(<<cur>>, <<>>)
                        /\ Return(PathResult(reconstruct_path_3d(parent, start, goal, vid)), "goal")
                   ELSE /\ OPEN' = st.queue
                        /\ parent' = st.parent
                        /\ counter' = st.counter
                        /\ Draw(<<cur>>, get_neighbors(cur))
                        /\ Continue
    /\ UNCHANGED <<inputs, other, walk, CLOSED, in_open, NODES>>

\* ------------------------------------------------------------------------
\* DFS tree-based (dfs_tree_based.py)
\* ------------------------------------------------------------------------
\* NODES[n] is the n-th DFSNode object created; parent is the index of the
\* parent object, NoNode for None.  The stack OPEN holds node indices.
DFSNode(s, p) == [state |-> s, parent |-> p]

\* build_partial_path: follow parent until None or an object seen before
RECURSIVE DFSTree_chain(_, _, _)
DFSTree_chain(nodes, n, seen) ==
    IF n = NoNode \/ n \in seen THEN <<>>
    ELSE <<nodes[n].state>> \o DFSTree_chain(nodes, nodes[n].parent, seen \cup {n})

build_partial_path(nodes, n) == Reverse(DFSTree_chain(nodes, n, {}))

RECURSIVE DFSTree_push(_, _, _, _)
DFSTree_push(nbrs, i, pnode, st) ==
    IF i > Len(nbrs) THEN st
    ELSE DFSTree_push(nbrs, i + 1, pnode,
            [nodes |-> Append(st.nodes, DFSNode(nbrs[i], pnode)),
             stack |-> Append(st.stack, Len(st.nodes) + 1)])

DFSTree_plan ==
    /\ kind = "DFSTree"
    /\ pc = "ready"
    /\ UNCHANGED <<inputs, visualizer, other, walk, expanded_count, expansion_map, counter, CLOSED, in_open, parent>>
    /\ NODES' = <<DFSNode(start, NoNode)>>
    /\ IF start = goal
       THEN /\ UNCHANGED OPEN
            /\ Return(PathResult(<<start>>), "trivial")
       ELSE /\ OPEN' = <<1>>
            /\ Continue

DFSTree_step ==
    /\ kind = "DFSTree"
    /\ pc = "running"
    /\ IF OPEN = <<>>
       THEN /\ UNCHANGED <<expanded_count, expansion_map, OPEN, NODES, visualizer>>
            /\ Return(NoneResult, "exhausted")
       ELSE IF BudgetReached(expanded_count, max_expansions)
       THEN /\ UNCHANGED <<expanded_count, expansion_map, OPEN, NODES, visualizer>>
            /\ Return(NoneResult, "budget")
       ELSE LET parent_node == OPEN[Len(OPEN)]
                v == NODES[parent_node].state
                rest == SubSeq(OPEN, 1, Len(OPEN) - 1)
                st == DFSTree_push(get_neighbors(v), 1, parent_node,
                                   [nodes |-> NODES, stack |-> rest])
            IN  /\ expanded_count' = expanded_count + 1
                /\ expansion_map' = Bump(expansion_map, v)
                /\ IF v = goal
                   THEN /\ OPEN' = rest
                        /\ UNCHANGED NODES
                        /\ Draw(<<v>>, <<>>)
                        /\ Return(PathResult(build_partial_path(NODES, parent_node)), "goal")
                   ELSE /\ OPEN' = st.stack
                        /\ NODES' = st.nodes
                        /\ Draw(<<v>>, get_neighbors(v))
                        /\ Continue
    /\ UNCHANGED <<inputs, other, walk, counter, CLOSED, in_open, parent>>

\* ------------------------------------------------------------------------
\* Specification: one plan() call on a fresh planner
\* ------------------------------------------------------------------------
Next ==
    \/ AStarGraph_plan
    \/ AStarGraph_step
    \/ AStarTree_plan
    \/ AStarTree_step
    \/ BFSGraph_plan
    \/ BFSGraph_step
    \/ BFSTree_plan
    \/ BFSTree_step
    \/ DFSGraph_plan
    \/ DFSGraph_step
    \/ DFSTree_plan
    \/ DFSTree_step

Spec == Init /\ [][Next]_vars

\* ------------------------------------------------------------------------
\* A second plan() call on the same planner instance
\* ------------------------------------------------------------------------
\* the caller calls plan(start, goal) again: the locals of the finished call
\* are gone, the attributes of the planner object stay as they are
CallAgain ==
    /\ pc = "done"
    /\ Len(history) < MaxCalls
    /\ pc' = "ready"
    /\ exit' = "none"
    /\ OPEN' = <<>>
    /\ CLOSED' = {}
    /\ in_open' = {}
    /\ parent' = <<>>
    /\ NODES' = <<>>
    /\ result' = Pending
    /\ UNCHANGED <<inputs, visualizer, other, walk, expanded_count, expansion_map, counter, history>>

NextTwice == Next \/ CallAgain

SpecTwice == Init /\ [][NextTwice]_vars

\* ------------------------------------------------------------------------
\* One plan() call on a fresh planner constructed with a visualizer
\* ------------------------------------------------------------------------
InitVis ==
    /\ SmallGrid \/ ScenarioBGrid \/ ScenarioAGrid
    /\ kind \in Kinds
    /\ entry = "plan"
    /\ pc = "ready"
    /\ FreshPlanner
    /\ NoWalk
    /\ other = NoInstance
    /\ visualizer = AttachedVisualizer

SpecVis == InitVis /\ [][Next]_vars

\* ------------------------------------------------------------------------
\* One plan() call on a fresh planner constructed with a larger
\* max_expansions, so that the tree searches revisit cells before they stop
\* ------------------------------------------------------------------------
InitDeep ==
    /\ SmallGridMap
    /\ max_expansions = DeepBudget
    /\ kind \in Kinds
    /\ entry = "plan"
    /\ pc = "ready"
    /\ FreshPlanner
    /\ NoWalk
    /\ other = NoInstance
    /\ visualizer = NoVisualizer

SpecDeep == InitDeep /\ [][Next]_vars

\* ------------------------------------------------------------------------
\* The two graph-based DFS classes asked the same question: the one of
\* dfs_graph_based.py (NavigationSystem) first, then the one of dfs.py
\* (benchmark comparator) constructed on the same grid_map
\* ------------------------------------------------------------------------
InitDFS ==
    /\ SmallGrid \/ ScenarioBGrid \/ ScenarioAGrid
    /\ kind = "DFSGraph"
    /\ entry = "plan"
    /\ pc = "ready"
    /\ FreshPlanner
    /\ NoWalk
    /\ other = NoInstance
    /\ visualizer = NoVisualizer

Construct_dfs ==
    /\ pc = "done"
    /\ kind = "DFSGraph"
    /\ kind' = "DFS"
    /\ expanded_count' = 0
    /\ expansion_map' = <<>>
    /\ pc' = "ready"
    /\ exit' = "none"
    /\ OPEN' = <<>>
    /\ CLOSED' = {}
    /\ parent' = <<>>
    /\ result' = Pending
    /\ UNCHANGED <<width, height, obstacles, inflated, motion, start, goal, max_expansions,
                   entry, visualizer, other, walk, history, counter, in_open, NODES>>

NextDFS ==
    \/ DFSGraph_plan
    \/ DFSGraph_step
    \/ Construct_dfs
    \/ DFS_plan
    \/ DFS_step

SpecDFS == InitDFS /\ [][NextDFS]_vars

\* ------------------------------------------------------------------------
\* A* graph-based and A* tree-based asked the same question, one after the
\* other, each planner constructed on the same grid_map (as the benchmark
\* comparator constructs the planners of its registry)
\* ------------------------------------------------------------------------
InitBoth ==
    /\ SmallGrid \/ ScenarioAGrid
    /\ kind = "AStarGraph"
    /\ entry = "plan"
    /\ pc = "ready"
    /\ FreshPlanner
    /\ NoWalk
    /\ other = NoInstance
    /\ visualizer = NoVisualizer

\* the graph-based planner has returned; a tree-based planner is constructed
\* on the same grid_map with the same motion model
Construct_treebased ==
    /\ pc = "done"
    /\ kind = "AStarGraph"
    /\ kind' = "AStarTree"
    /\ expanded_count' = 0
    /\ expansion_map' = <<>>
    /\ counter' = 0
    /\ pc' = "ready"
    /\ exit' = "none"
    /\ OPEN' = <<>>
    /\ CLOSED' = {}
    /\ in_open' = {}
    /\ parent' = <<>>
    /\ NODES' = <<>>
    /\ result' = Pending
    /\ UNCHANGED <<width, height, obstacles, inflated, motion, start, goal, max_expansions,
                   entry, visualizer, other, walk, history>>

NextBoth ==
    \/ AStarGraph_plan
    \/ AStarGraph_step
    \/ Construct_treebased
    \/ AStarTree_plan
    \/ AStarTree_step

SpecBoth == InitBoth /\ [][NextBoth]_vars

\* ------------------------------------------------------------------------
\* Two planner instances on one grid, their plan() calls interleaved
\* ------------------------------------------------------------------------
\* small grids without inflation, start in the corner
InitPair ==
    /\ SmallGrid
    /\ inflated = {}
    /\ start = <<0, 0>>
    /\ kind \in Kinds
    /\ entry = "plan"
    /\ pc = "ready"
    /\ FreshPlanner
    /\ NoWalk
    /\ other = NoInstance
    /\ visualizer = NoVisualizer

\* after a planner has run alone, two more instances of the same class are
\* constructed on the same grid_map (Planner.__init__ stores the reference);
\* one of them is about to run, the other is held in other
Construct ==
    /\ pc = "done"
    /\ Len(history) = 1
    /\ other = NoInstance
    /\ visualizer = NoVisualizer
    /\ other' = FreshInstance
    /\ expanded_count' = 0
    /\ expansion_map' = <<>>
    /\ counter' = 0
    /\ pc' = "ready"
    /\ exit' = "none"
    /\ OPEN' = <<>>
    /\ CLOSED' = {}
    /\ in_open' = {}
    /\ parent' = <<>>
    /\ NODES' = <<>>
    /\ result' = Pending
    /\ UNCHANGED <<inputs, visualizer, walk, history>>

Switch_shared_expanded_count ==
    /\ other.pc \in {"ready", "running"}
    /\ other' = Instance(expanded_count, expansion_map, counter, pc, exit, OPEN,
                         CLOSED, in_open, parent, NODES, result)
    /\ expanded_count' = expanded_count
    /\ expansion_map' = other.expansion_map
    /\ counter' = other.counter
    /\ pc' = other.pc
    /\ exit' = other.exit
    /\ OPEN' = other.OPEN
    /\ CLOSED' = other.CLOSED
    /\ in_open' = other.in_open
    /\ parent' = other.parent
    /\ NODES' = other.NODES
    /\ result' = other.result
    /\ UNCHANGED <<inputs, visualizer, walk, history>>

\* the scheduler suspends the running thread between two loop iterations and
\* resumes the other one: each thread finds its own planner attributes and
\* plan() locals as it left them
Switch ==
    /\ other.pc \in {"ready", "running"}
    /\ other' = Instance(expanded_count, expansion_map, counter, pc, exit, OPEN,
                         CLOSED, in_open, parent, NODES, result)
    /\ expanded_count' = other.expanded_count
    /\ expansion_map' = other.expansion_map
    /\ counter' = other.counter
    /\ pc' = other.pc
    /\ exit' = other.exit
    /\ OPEN' = other.OPEN
    /\ CLOSED' = other.CLOSED
    /\ in_open' = other.in_open
    /\ parent' = other.parent
    /\ NODES' = other.NODES
    /\ result' = other.result
    /\ UNCHANGED <<inputs, visualizer, walk, history>>

NextPair == Next \/ Construct \/ Switch

SpecPair == InitPair /\ [][NextPair]_vars

\* ------------------------------------------------------------------------
\* NavigationSystem.run() (navigation_system.py)
\* ------------------------------------------------------------------------
\* _validate_start_goal: raises RuntimeError for a blocked start; it is only
\* called when start/goal are taken from the robot
StartRejected == entry = "robot" /\ (is_obstacle(start) \/ is_inflated(start))

\* run(), lines 176-227: start/goal taken, planner created
NavigationSystem_run ==
    /\ pc = "nav"
    /\ IF StartRejected
       THEN /\ pc' = "raised"
            /\ exit' = "RuntimeError"
       ELSE /\ pc' = "ready"
            /\ UNCHANGED exit
    /\ UNCHANGED <<inputs, visualizer, other, walk, expanded_count, expansion_map, counter, OPEN, CLOSED,
                   in_open, parent, NODES, result, history>>

\* run(), lines 232-261: "if not path: return None", else the path
NavigationSystem_return ==
    /\ pc = "done"
    /\ entry # "plan"
    /\ pc' = "returned"
    /\ result' = IF result.tag = "path" /\ result.path # <<>> THEN result ELSE NoneResult
    /\ UNCHANGED <<inputs, visualizer, other, walk, expanded_count, expansion_map, counter, exit, OPEN, CLOSED,
                   in_open, parent, NODES, history>>

InitNav ==
    /\ SmallGrid
    /\ kind \in Kinds
    /\ entry \in {"plan", "env", "robot"}
    /\ pc = IF entry = "plan" THEN "ready" ELSE "nav"
    /\ FreshPlanner
    /\ NoWalk
    /\ other = NoInstance
    /\ visualizer = NoVisualizer

NextNav == NavigationSystem_run \/ NavigationSystem_return \/ Next

SpecNav == InitNav /\ [][NextNav]_vars

\* ------------------------------------------------------------------------
\* reconstruct_path_3d / build_partial_path_3d on an arbitrary parent table
\* (astar_tree_based.py and bfs.py; the four bodies are the same loop)
\* ------------------------------------------------------------------------
WalkMaxVid == 1
WalkMaxLinks == 3

WalkCells == {<<0, 0>>, <<1, 0>>}
WalkRecords == WalkCells \X (0 .. WalkMaxVid)

\* the arguments: any parent table over the records, well formed or not
InitWalk ==
    /\ width = 2
    /\ height = 1
    /\ obstacles = {}
    /\ inflated = {}
    /\ motion = "4n"
    /\ max_expansions = Budget
    /\ kind \in {"AStarTree", "BFSTree"}
    /\ entry \in {"reconstruct_path_3d", "build_partial_path_3d"}
    /\ start \in WalkCells
    /\ goal \in WalkCells
    /\ \E D \in {S \in SUBSET WalkRecords : Cardinality(S) <= WalkMaxLinks} :
          parent \in [D -> WalkRecords]
    /\ pc = "walk_ready"
    /\ expanded_count = 0
    /\ expansion_map = <<>>
    /\ counter = 0
    /\ exit = "none"
    /\ OPEN = <<>>
    /\ CLOSED = {}
    /\ in_open = {}
    /\ NODES = <<>>
    /\ result = Pending
    /\ history = <<>>
    /\ NoWalk
    /\ other = NoInstance
    /\ visualizer = NoVisualizer

\* path = [], cur_state = goal, cur_vid = vid, visited = set()
Walk_begin ==
    /\ pc = "walk_ready"
    /\ \E vid \in 0 .. WalkMaxVid : cur_vid' = vid
    /\ cur_state' = goal
    /\ path' = <<>>
    /\ visited' = {}
    /\ pc' = "walking"
    /\ UNCHANGED <<inputs, visualizer, other, expanded_count, expansion_map, counter, exit, OPEN, CLOSED,
                   in_open, parent, NODES, result, history>>

\* the loop is left by break: the function returns list(reversed(path))
Walk_return(how) ==
    /\ pc' = "done"
    /\ exit' = how
    /\ result' = PathResult(Reverse(path'))
    /\ UNCHANGED <<cur_state, cur_vid>>

Walk_step_without_visited ==
    /\ pc = "walking"
    /\ path' = Append(path, cur_state)
    /\ IF cur_state = start
       THEN /\ UNCHANGED visited
            /\ Walk_return("start")
       ELSE IF <<cur_state, cur_vid>> \in visited
       THEN /\ UNCHANGED visited
            /\ Walk_return("loop")
       ELSE /\ UNCHANGED visited
            /\ IF <<cur_state, cur_vid>> \notin DOMAIN parent
               THEN Walk_return("missing")
               ELSE /\ cur_state' = parent[<<cur_state, cur_vid>>][1]
                    /\ cur_vid' = parent[<<cur_state, cur_vid>>][2]
                    /\ UNCHANGED <<pc, exit, result>>
    /\ UNCHANGED <<inputs, visualizer, other, expanded_count, expansion_map, counter, OPEN, CLOSED,
                   in_open, parent, NODES, history>>

\* one iteration of "while True"
Walk_step ==
    /\ pc = "walking"
    /\ path' = Append(path, cur_state)
    /\ IF cur_state = start
       THEN /\ UNCHANGED visited
            /\ Walk_return("start")
       ELSE IF <<cur_state, cur_vid>> \in visited
       THEN /\ UNCHANGED visited
            /\ Walk_return("loop")
       ELSE /\ visited' = visited \cup {<<cur_state, cur_vid>>}
            /\ IF <<cur_state, cur_vid>> \notin DOMAIN parent
               THEN Walk_return("missing")
               ELSE /\ cur_state' = parent[<<cur_state, cur_vid>>][1]
                    /\ cur_vid' = parent[<<cur_state, cur_vid>>][2]
                    /\ UNCHANGED <<pc, exit, result>>
    /\ UNCHANGED <<inputs, visualizer, other, expanded_count, expansion_map, counter, OPEN, CLOSED,
                   in_open, parent, NODES, history>>

NextWalk == Walk_begin \/ Walk_step

SpecWalk == InitWalk /\ [][NextWalk]_vars

\* ------------------------------------------------------------------------
\* reconstruct_path_3d on the parent table plan() has built so far, for a
\* record of the goal cell (A* tree-based and BFS tree-based)
\* ------------------------------------------------------------------------
InitBuilt ==
    /\ SmallGrid
    /\ kind \in {"AStarTree", "BFSTree"}
    /\ entry = "plan"
    /\ pc = "ready"
    /\ FreshPlanner
    /\ NoWalk
    /\ other = NoInstance
    /\ visualizer = NoVisualizer

\* reconstruct_path_3d(parent, start, goal, vid) with vid a visit id under
\* which the goal cell is recorded
Walk_begin_built ==
    /\ pc \in {"running", "done"}
    /\ path = <<>>
    /\ \E r \in DOMAIN parent :
          /\ r[1] = goal
          /\ cur_vid' = r[2]
    /\ cur_state' = goal
    /\ path' = <<>>
    /\ visited' = {}
    /\ pc' = "walking"
    /\ UNCHANGED <<inputs, visualizer, other, expanded_count, expansion_map, counter, exit,
                   OPEN, CLOSED, in_open, parent, NODES, result, history>>

NextBuilt ==
    \/ AStarTree_plan
    \/ AStarTree_step
    \/ BFSTree_plan
    \/ BFSTree_step
    \/ Walk_begin_built
    \/ Walk_step

SpecBuilt == InitBuilt /\ [][NextBuilt]_vars

\* ------------------------------------------------------------------------
\* get_neighbors called on its own (the six classes carry the same body)
\* ------------------------------------------------------------------------
InitNeighbors ==
    /\ SmallGrid
    /\ start = <<0, 0>>
    /\ goal = <<0, 0>>
    /\ kind \in Kinds
    /\ entry = "get_neighbors"
    /\ pc = "ready"
    /\ FreshPlanner
    /\ NoWalk
    /\ other = NoInstance
    /\ visualizer = NoVisualizer

\* list(planner.get_neighbors(gx, gy)) for a cell of the grid: cur_state holds
\* the argument, path the cells yielded
get_neighbors_call ==
    /\ pc = "ready"
    /\ entry = "get_neighbors"
    /\ \E c \in Cells :
          /\ cur_state' = c
          /\ path' = get_neighbors(c)
    /\ pc' = "done"
    /\ UNCHANGED <<inputs, visualizer, other, expanded_count, expansion_map, counter, exit, OPEN, CLOSED,
                   in_open, parent, NODES, result, history, cur_vid, visited>>

NextNeighbors == get_neighbors_call

SpecNeighbors == InitNeighbors /\ [][NextNeighbors]_vars

\* ------------------------------------------------------------------------
\* heuristic() and cost() as Python evaluates them: IEEE binary64 values.
\* <<hi, lo>> is the number (hi * 2^26 + lo) * 2^-52, 0 <= lo < 2^26; every
\* value met here is a multiple of 2^-52 below 16.  The resolution is 1.0
\* (the default of main.py), so "* self.res" changes no value.
\* ------------------------------------------------------------------------
HeurW == 4
HeurH == 4

Limb == 67108864

\* float(n) for a small non-negative integer n
DoubleOf(n) == <<n * Limb, 0>>

\* math.sqrt(2) = 6369051672525773 * 2^-52
Sqrt2Double == <<94906265, 41892813>>

\* x + y, x - y and x * n as real numbers, before rounding
DAddExact(x, y) ==
    LET lo == x[2] + y[2]
    IN  <<x[1] + y[1] + (lo \div Limb), lo % Limb>>

DSubExact(x, y) ==
    LET lo == x[2] - y[2]
    IN  IF lo >= 0 THEN <<x[1] - y[1], lo>> ELSE <<x[1] - y[1] - 1, lo + Limb>>

DMulExact(x, n) ==
    LET lo == x[2] * n
    IN  <<x[1] * n + (lo \div Limb), lo % Limb>>

\* round to nearest binary64, ties to even: below 2 every multiple of 2^-52
\* is a binary64; in [2,4) the spacing is 2^-51, in [4,8) 2^-50, in [8,16) 2^-49
DRound(x) ==
    LET gap == IF x[1] < 2 * Limb THEN 1
               ELSE IF x[1] < 4 * Limb THEN 2
               ELSE IF x[1] < 8 * Limb THEN 4
               ELSE 8
        q == x[2] \div gap
        r == x[2] % gap
        up == 2 * r > gap \/ (2 * r = gap /\ q % 2 = 1)
        lo == (IF up THEN q + 1 ELSE q) * gap
    IN  IF lo = Limb THEN <<x[1] + 1, 0>> ELSE <<x[1], lo>>

DLt(x, y) == x[1] < y[1] \/ (x[1] = y[1] /\ x[2] < y[2])

\* heuristic(a, b): (dx + dy) * res, or
\* (max(dx, dy) + (math.sqrt(2) - 1) * min(dx, dy)) * res
heuristic_double(a, b) ==
    LET dx == Abs(a[1] - b[1])
        dy == Abs(a[2] - b[2])
        sqrt2_minus_1 == DRound(DSubExact(Sqrt2Double, DoubleOf(1)))
        scaled == DRound(DMulExact(sqrt2_minus_1, Min(dx, dy)))
    IN  IF motion = "4n"
        THEN DoubleOf(dx + dy)
        ELSE DRound(DAddExact(DoubleOf(Max(dx, dy)), scaled))

\* cost(x1, y1, x2, y2): math.sqrt(2) * res for a diagonal step, else 1 * res
cost_double(a, b) ==
    IF a[1] # b[1] /\ a[2] # b[2] THEN Sqrt2Double ELSE DoubleOf(1)

\* an obstacle-free grid, any cell a (held in start) and any goal
InitHeuristic ==
    /\ width = HeurW
    /\ height = HeurH
    /\ obstacles = {}
    /\ inflated = {}
    /\ motion \in {"4n", "8n"}
    /\ start \in CellsOf(HeurW, HeurH)
    /\ goal \in CellsOf(HeurW, HeurH)
    /\ max_expansions = Budget
    /\ kind \in {"AStarGraph", "AStarTree"}
    /\ entry = "heuristic"
    /\ pc = "ready"
    /\ FreshPlanner
    /\ NoWalk
    /\ other = NoInstance
    /\ visualizer = NoVisualizer

\* what plan() evaluates for a neighbour b of a: heuristic(a, goal),
\* cost(a, b) and heuristic(b, goal)
heuristic_call ==
    /\ pc = "ready"
    /\ entry = "heuristic"
    /\ \E i \in 1 .. Len(get_neighbors(start)) :
          LET b == get_neighbors(start)[i]
          IN  result' = [tag |-> "heuristic", path |-> <<start, b>>,
                         h_a |-> heuristic_double(start, goal),
                         step |-> cost_double(start, b),
                         h_b |-> heuristic_double(b, goal)]
    /\ pc' = "done"
    /\ UNCHANGED <<inputs, visualizer, other, walk, expanded_count, expansion_map, counter, exit, OPEN,
                   CLOSED, in_open, parent, NODES, history>>

NextHeuristic == heuristic_call

SpecHeuristic == InitHeuristic /\ [][NextHeuristic]_vars

\* ------------------------------------------------------------------------
\* Reference notions the properties are stated with (defined from the grid
\* alone, not from the planners' helpers)
\* ------------------------------------------------------------------------
StepVectors ==
    IF motion = "4n"
    THEN {<<1, 0>>, <<-1, 0>>, <<0, 1>>, <<0, -1>>}
    ELSE ({-1, 0, 1} \X {-1, 0, 1}) \ {<<0, 0>>}

Blocked(c) == c \in obstacles \/ c \in inflated
FreeCell(c) == c \in Cells /\ ~Blocked(c)

\* cells one legal step away from c: in bounds, not obstacle, not inflated
Succ(c) == {d \in Cells : FreeCell(d) /\ <<d[1] - c[1], d[2] - c[2]>> \in StepVectors}

RECURSIVE Closure(_)
Closure(S) ==
    LET T == S \cup UNION {Succ(c) : c \in S}
    IN  IF T = S THEN S ELSE Closure(T)

\* cells reachable from s by zero or more legal steps
ReachableFrom(s) == Closure({s})

StepCost(c, d) == IF c[1] # d[1] /\ c[2] # d[2] THEN <<0, 1>> ELSE <<1, 0>>

RECURSIVE PathCostFrom(_, _)
PathCostFrom(p, i) ==
    IF i >= Len(p) THEN Zero
    ELSE CostAdd(StepCost(p[i], p[i + 1]), PathCostFrom(p, i + 1))

PathCost(p) == PathCostFrom(p, 1)

\* exhaustive uniform-cost search: settles every reachable cell
RECURSIVE Dijkstra(_, _)
Dijkstra(dist, settled) ==
    LET todo == (DOMAIN dist) \ settled
    IN  IF todo = {} THEN dist
        ELSE LET u == CHOOSE x \in todo : \A w \in todo : ~CostLt(dist[w], dist[x])
                 via(d) == CostAdd(dist[u], StepCost(u, d))
                 better == {d \in Succ(u) \ settled :
                               d \notin DOMAIN dist \/ CostLt(via(d), dist[d])}
             IN  Dijkstra([d \in better |-> via(d)] @@ dist, settled \cup {u})

DijkstraCost(s, g) == Dijkstra((s :> Zero), {})[g]

LegalPath(p) ==
    /\ Len(p) >= 1
    /\ p[1] = start
    /\ p[Len(p)] = goal
    /\ \A i \in 1 .. Len(p) - 1 :
          <<p[i + 1][1] - p[i][1], p[i + 1][2] - p[i][2]>> \in StepVectors

Returned == pc = "done"

\* ------------------------------------------------------------------------
\* Properties
\* ------------------------------------------------------------------------
\* C1: whenever the goal is reachable from start, A* graph-based returns a
\* path whose total step cost equals the cost an exhaustive uniform-cost
\* (Dijkstra) search finds for the goal on the same grid.
C1_AStarGraphOptimal ==
    (kind = "AStarGraph" /\ Returned /\ goal \in ReachableFrom(start))
        => /\ result.tag = "path"
           /\ PathCost(result.path) = DijkstraCost(start, goal)

\* A* graph-based returned a path that costs more than the straight-line
\* estimate: it had to go around blocked cells
C1_Witness ==
    /\ kind = "AStarGraph"
    /\ Returned
    /\ result.tag = "path"
    /\ Len(result.path) >= 4
    /\ CostLt(heuristic(start, goal), PathCost(result.path))

\* C2: every path returned by any of the six planners starts at start, ends
\* at goal, and each pair of consecutive cells differs by one step vector of
\* the active motion model.
C2_ReturnedPathLegal ==
    (Returned /\ result.tag = "path") => LegalPath(result.path)

\* a tree-based planner returned a path of at least two steps
C2_Witness ==
    /\ kind \in TreeKinds
    /\ Returned
    /\ exit = "goal"
    /\ Len(result.path) >= 3

\* C3: in one plan() call on a fresh graph-based planner no cell is expanded
\* more than once, and expanded_count never exceeds the number of free
\* (non-obstacle, non-inflated) cells reachable from start.
C3_GraphClosure ==
    kind \in GraphKinds =>
        /\ \A c \in DOMAIN expansion_map : expansion_map[c] <= 1
        /\ expanded_count <= Cardinality({c \in ReachableFrom(start) : FreeCell(c)})

\* C4: a second plan() call with the same arguments returns the same path
\* and leaves expanded_count and expansion_map at the values they had after
\* the first call.
C4_SecondCallSame ==
    Len(history) = 2 =>
        /\ history[2].result = history[1].result
        /\ history[2].expanded_count = history[1].expanded_count
        /\ history[2].expansion_map = history[1].expansion_map

C5_Step ==
    (kind \in TreeKinds /\ pc = "running" /\ expanded_count >= max_expansions)
        => (pc' = "done" /\ expanded_count' = expanded_count)

C6_Step ==
    kind \in {"BFSTree", "DFSTree"} =>
        /\ expanded_count' <= max_expansions
        /\ (pc = "running" /\ expanded_count = max_expansions /\ OPEN # <<>>)
              => /\ pc' = "done"
                 /\ result' = NoneResult
                 /\ OPEN' = OPEN
                 /\ expanded_count' = expanded_count

\* C5: in every tree-based planner, once the number of expansions has reached
\* the expansion budget the running call aborts instead of expanding again.
C5_TreeBudgetAborts == [][C5_Step]_vars

\* C6: BFS-tree and DFS-tree never perform more than max_expansions
\* expansions, and a step taken with expanded_count at the budget and a
\* non-empty frontier returns None without popping a record.
C6_BudgetRespected == [][C6_Step]_vars

\* DFS-tree on the Scenario B grid stopped by its budget of 50 expansions
C6_Witness ==
    /\ kind = "DFSTree"
    /\ width = 5
    /\ Returned
    /\ exit = "budget"
    /\ expanded_count = ScenarioBBudget
    /\ OPEN # <<>>

\* C7: the value BFS-tree / DFS-tree return when the budget is hit differs
\* from the value returned when the frontier empties (None).
C7_BudgetDistinguishable ==
    (kind \in {"BFSTree", "DFSTree"} /\ Returned /\ exit = "budget")
        => result # NoneResult

\* C8: when the goal cell is an obstacle or inflated-blocked no cell is ever
\* expanded (the request is rejected before the search).
C8_BlockedGoalRejected ==
    Blocked(goal) => expanded_count = 0

\* C9: when the start cell is an obstacle or inflated-blocked no cell is ever
\* expanded, on both entry paths of NavigationSystem.run().
C9_BlockedStartRejected ==
    (entry \in {"env", "robot"} /\ Blocked(start))
        => expanded_count = 0

\* lexicographic measure <<cells not yet closed, frontier size>> of a graph search
FrontierSize == IF kind = "AStarGraph" THEN Cardinality(DOMAIN OPEN) ELSE Len(OPEN)
IterMeasure == Cardinality(Cells \ CLOSED) * (Cardinality(Cells) + 1) + FrontierSize

C10_ResultCorrect(res) ==
    /\ res.tag \in {"none", "path"}
    /\ (res = NoneResult <=> goal \notin ReachableFrom(start))

C10_Step ==
    kind \in GraphKinds =>
        /\ pc = "running" => (pc' = "done" \/ (pc' = "running" /\ IterMeasure' < IterMeasure))
        /\ pc' = "done" => C10_ResultCorrect(result')

\* C10: every graph-based plan() call terminates (each loop iteration either
\* returns or strictly decreases a non-negative measure); it returns None exactly
\* when the goal is not reachable from start by legal steps into in-bounds,
\* non-obstacle, non-inflated cells, and a path otherwise.
C10_GraphComplete == [][C10_Step]_vars

\* a graph-based planner exhausted its frontier with a free goal walled off
C10_Witness ==
    /\ kind \in GraphKinds
    /\ Returned
    /\ exit = "exhausted"
    /\ FreeCell(goal)
    /\ expanded_count >= 2

\* fewest legal steps from s to g (-1 when g is not reachable): breadth-first
\* layers of the successor relation
RECURSIVE Layers(_, _, _)
Layers(S, g, n) ==
    IF g \in S THEN n
    ELSE LET T == S \cup UNION {Succ(c) : c \in S}
         IN  IF T = S THEN -1 ELSE Layers(T, g, n + 1)

StepsTo(s, g) == Layers({s}, g, 0)

\* C11: whenever the goal is reachable from start, BFS graph-based returns a
\* path whose number of steps is the minimum over all start-to-goal paths
\* under the active motion model.
C11_BFSGraphFewestSteps ==
    (kind = "BFSGraph" /\ Returned /\ goal \in ReachableFrom(start))
        => /\ result.tag = "path"
           /\ Len(result.path) - 1 = StepsTo(start, goal)

\* BFS graph-based returned a path of three or more steps around a blocked cell
C11_Witness ==
    /\ kind = "BFSGraph"
    /\ Returned
    /\ exit = "goal"
    /\ obstacles # {}
    /\ Len(result.path) >= 4
    /\ Len(result.path) - 1 > Max(Abs(start[1] - goal[1]), Abs(start[2] - goal[2]))

C12_Step ==
    pc = "ready" =>
        /\ expanded_count' = 0
        /\ expansion_map' = <<>>
        /\ kind \in {"AStarTree", "BFSTree"} => counter' = 1

\* C12: the opening statements of every plan() call leave the per-search
\* state fresh: expanded_count is 0, expansion_map is empty and the visit-id
\* counter of A*-tree and BFS-tree is back at 1, also in a second call on the
\* same planner instance.
C12_FreshAtCallStart == [][C12_Step]_vars

\* records <<state, visit_id>> of the frontier and of the parent table
Records ==
    IF kind = "AStarTree" THEN {<<r[4], r[3]>> : r \in OPEN} \cup DOMAIN parent
    ELSE IF kind = "BFSTree" THEN {OPEN[i] : i \in 1 .. Len(OPEN)} \cup DOMAIN parent
    ELSE {}

VisitIdsUnique(recs, next) ==
    /\ \A r \in recs : r[2] = 0 => r = <<start, 0>>
    /\ \A r, q \in recs : r[2] = q[2] => r = q
    /\ \A r \in recs : r[2] < next

C13_Step ==
    (kind \in {"AStarTree", "BFSTree"} /\ pc' \in {"running", "done"}) =>
        /\ VisitIdsUnique(Records', counter')
        /\ pc = "running" => \A r \in Records' \ Records :
                                 \A q \in Records : r[2] > q[2]

\* C13: in a plan() call of A*-tree or BFS-tree visit id 0 belongs only to the
\* start record, every record created for a neighbour gets a visit id greater
\* than every visit id issued before, and no two records of the frontier or
\* the parent table share a visit id.
C13_VisitIdsFresh == [][C13_Step]_vars

\* a cell is held under two different visit ids
C13_Witness ==
    /\ kind \in {"AStarTree", "BFSTree"}
    /\ pc \in {"running", "done"}
    /\ \E r, q \in Records : r[1] = q[1] /\ r[2] # q[2]
    /\ counter >= 4

\* C14: when the walk of reconstruct_path_3d is stopped by a repeated
\* (state, visit_id) pair or by a missing parent link, the value returned is
\* not a path (the caller can tell the failure from a valid path).
C14_IntegritySurfaced ==
    (pc = "done" /\ exit \in {"loop", "missing"}) => result.tag # "path"

C15_Step ==
    /\ Len(path') <= Cardinality(DOMAIN parent) + 1
    /\ pc = "walking" =>
          \/ pc' = "done"
          \/ /\ pc' = "walking"
             /\ visited' \subseteq DOMAIN parent
             /\ visited \subseteq visited'
             /\ visited' # visited

\* C15: reconstruct_path_3d and build_partial_path_3d terminate on every
\* parent table: each iteration either returns or adds a new record of the
\* table to visited, and the number of iterations never exceeds the number
\* of records in the table plus one.
C15_WalkTerminates == [][C15_Step]_vars

\* a walk around a cycle through every record of the table, stopped by the
\* visited set after as many iterations as the bound allows
C15_Witness ==
    /\ pc = "done"
    /\ exit = "loop"
    /\ Cardinality(DOMAIN parent) >= 2
    /\ Len(path) = Cardinality(DOMAIN parent) + 1

InPath(c, p) == \E i \in 1 .. Len(p) : p[i] = c

\* C16: on the Scenario B grid (5x5, wall at x = 2 for y = 0..3, 8n) a fresh
\* A* graph-based planner asked for (0,0) -> (4,0) returns a minimum-cost
\* path through the gap (2,4), having expanded fewer cells than the 21 free
\* cells of the grid.
C16_ScenarioB ==
    (kind = "AStarGraph" /\ width = 5 /\ Returned) =>
        /\ result.tag = "path"
        /\ PathCost(result.path) = DijkstraCost(<<0, 0>>, <<4, 0>>)
        /\ InPath(<<2, 4>>, result.path)
        /\ expanded_count < Cardinality({c \in Cells : FreeCell(c)})

\* the Scenario B call has returned its path, of cost 4 + 4*sqrt(2)
C16_Witness ==
    /\ kind = "AStarGraph"
    /\ width = 5
    /\ obstacles = {<<2, 0>>, <<2, 1>>, <<2, 2>>, <<2, 3>>}
    /\ start = <<0, 0>>
    /\ goal = <<4, 0>>
    /\ Returned
    /\ exit = "goal"
    /\ PathCost(result.path) = <<4, 4>>
    /\ Cardinality({c \in Cells : FreeCell(c)}) = 21

\* cells held by the frontier of a graph-based BFS or DFS
FrontierCells ==
    IF kind = "BFSGraph" THEN {OPEN[i] : i \in 1 .. Len(OPEN)}
    ELSE IF kind = "DFSGraph" THEN {OPEN[i][1] : i \in 1 .. Len(OPEN)}
    ELSE {}

\* C17: when start equals goal, graph-based BFS and graph-based DFS return
\* exactly [start], no cell other than start is ever expanded or placed on the
\* frontier, and both report the same expansion count, namely 0.
C17_StartIsGoal ==
    (kind \in {"BFSGraph", "DFSGraph"} /\ start = goal) =>
        /\ DOMAIN expansion_map \subseteq {start}
        /\ FrontierCells \subseteq {start}
        /\ Returned => (result = PathResult(<<start>>) /\ expanded_count = 0)

\* the step-vector table of the claim and the cells it yields from c, in order
StepTable ==
    IF motion = "4n"
    THEN << <<1, 0>>, <<-1, 0>>, <<0, 1>>, <<0, -1>> >>
    ELSE << <<1, 0>>, <<-1, 0>>, <<0, 1>>, <<0, -1>>,
            <<1, 1>>, <<1, -1>>, <<-1, 1>>, <<-1, -1>> >>

RECURSIVE FreeAlong(_, _)
FreeAlong(c, i) ==
    IF i > Len(StepTable) THEN <<>>
    ELSE LET d == <<c[1] + StepTable[i][1], c[2] + StepTable[i][2]>>
         IN  (IF FreeCell(d) THEN <<d>> ELSE <<>>) \o FreeAlong(c, i + 1)

\* C18: for every cell c, get_neighbors(c) yields the sequence of the cells
\* c+d, d in the order of the step-vector table of the motion model, that are
\* inside the grid, not an obstacle and not inflated; the six planners share
\* this generator.
C18_NeighborsExact ==
    (entry = "get_neighbors" /\ pc = "done") => path = FreeAlong(cur_state, 1)

\* get_neighbors in 8n has left out an obstacle, an inflated cell and cells
\* outside the grid
C18_Witness ==
    /\ entry = "get_neighbors"
    /\ pc = "done"
    /\ motion = "8n"
    /\ \E o \in obstacles : Max(Abs(o[1] - cur_state[1]), Abs(o[2] - cur_state[2])) = 1
    /\ \E o \in inflated : Max(Abs(o[1] - cur_state[1]), Abs(o[2] - cur_state[2])) = 1
    /\ Len(path) \in 1 .. 3

\* least total of the step costs cost() returns over all paths from s to g,
\* the totals added as real numbers (no rounding)
RECURSIVE DijkstraDouble(_, _)
DijkstraDouble(dist, settled) ==
    LET todo == (DOMAIN dist) \ settled
    IN  IF todo = {} THEN dist
        ELSE LET u == CHOOSE x \in todo : \A w \in todo : ~DLt(dist[w], dist[x])
                 via(d) == DAddExact(dist[u], cost_double(u, d))
                 better == {d \in Succ(u) \ settled :
                               d \notin DOMAIN dist \/ DLt(via(d), dist[d])}
             IN  DijkstraDouble([d \in better |-> via(d)] @@ dist, settled \cup {u})

MinStepCost(s, g) == DijkstraDouble((s :> DoubleOf(0)), {})[g]

\* C19: the value heuristic(a, goal) returns is at most the least total step
\* cost of a path from a to goal, and at most cost(a, b) + heuristic(b, goal)
\* for every legal step a -> b (admissible and consistent).
C19_HeuristicAdmissibleConsistent ==
    (entry = "heuristic" /\ pc = "done") =>
        /\ ~DLt(MinStepCost(start, goal), result.h_a)
        /\ ~DLt(DAddExact(result.step, result.h_b), result.h_a)

\* what the caller of the k-th plan() call to return got, compared with what
\* the caller of the planner that ran alone got.  heapdict's order among
\* equal priorities is open in A* graph-based, so there the paths are compared
\* by their cost only.
SameAsAlone(k) ==
    IF kind = "AStarGraph"
    THEN /\ history[k].result.tag = history[1].result.tag
         /\ PathCost(history[k].result.path) = PathCost(history[1].result.path)
    ELSE /\ history[k].result = history[1].result
         /\ history[k].expanded_count = history[1].expanded_count
         /\ history[k].expansion_map = history[1].expansion_map

FrontierSeq ==
    IF kind = "BFSGraph" THEN OPEN
    ELSE IF kind = "DFSGraph" THEN [i \in 1 .. Len(OPEN) |-> OPEN[i][1]]
    ELSE <<>>

NoRepeat(s) == \A i, j \in 1 .. Len(s) : s[i] = s[j] => i = j

C21_Step ==
    (kind \in {"BFSGraph", "DFSGraph"} /\ pc' \in {"running", "done"}) =>
        /\ NoRepeat(FrontierSeq')
        /\ FrontierCells' \cap CLOSED' = {}
        /\ CLOSED \subseteq CLOSED'
        /\ \A c \in FrontierCells' \ FrontierCells : c \notin CLOSED
        /\ pc' = "running" => \A c \in FrontierCells \ FrontierCells' : c \in CLOSED'

C22_Relaxed(current) ==
    \A v \in (DOMAIN OPEN) \ {current} :
        LET new_g == CostAdd(NODES[current].g, StepCost(current, v))
            new_f == CostAdd(new_g, heuristic(v, goal))
        IN  IF v \in Succ(current) /\ CostLt(new_f, OPEN[v])
            THEN NODES'[v] = Node(v, new_g, new_f, current) /\ OPEN'[v] = new_f
            ELSE NODES'[v] = NODES[v] /\ OPEN'[v] = OPEN[v]

C22_Step ==
    kind = "AStarGraph" =>
        /\ \A c \in DOMAIN NODES :
              c \in DOMAIN NODES' /\ ~CostLt(NODES[c].g, NODES'[c].g)
        /\ (pc = "running" /\ pc' = "running") =>
              \A current \in CLOSED' \ CLOSED : C22_Relaxed(current)

\* C22: in an iteration of A* graph-based that expands current, a cell v that
\* was already in OPEN gets g, f, parent and OPEN priority replaced by the
\* values of the route through current exactly when v is a neighbour of
\* current and the new f is strictly less than the stored priority; otherwise
\* its node and its priority are unchanged.  The g stored for a cell never
\* increases.
C22_StrictImprovementOnly == [][C22_Step]_vars

\* a cell of OPEN has been reached from two expanded cells that gave it
\* different g values, and its node holds the smaller g with that parent
C22_Witness ==
    /\ kind = "AStarGraph"
    /\ pc = "running"
    /\ \E v \in DOMAIN OPEN : \E p, q \in CLOSED :
          /\ v \in Succ(p) /\ v \in Succ(q)
          /\ NODES[v].parent = p
          /\ NODES[v].g = CostAdd(NODES[p].g, StepCost(p, v))
          /\ CostLt(NODES[v].g, CostAdd(NODES[q].g, StepCost(q, v)))

\* the cells held by the frontier of any of the six planners
HeldCells ==
    IF kind = "AStarGraph" THEN DOMAIN OPEN
    ELSE IF kind = "AStarTree" THEN {r[4] : r \in OPEN}
    ELSE IF kind = "BFSGraph" THEN {OPEN[i] : i \in 1 .. Len(OPEN)}
    ELSE IF kind = "DFSTree" THEN {NODES[OPEN[i]].state : i \in 1 .. Len(OPEN)}
    ELSE {OPEN[i][1] : i \in 1 .. Len(OPEN)}

RECURSIVE SumOver(_, _)
SumOver(m, D) ==
    IF D = {} THEN 0
    ELSE LET c == CHOOSE x \in D : TRUE
         IN  m[c] + SumOver(m, D \ {c})

SumMap(m) == SumOver(m, DOMAIN m)

\* one expansion of cell c has been recorded, and nothing else
CountedOnce(c) ==
    /\ expanded_count' = expanded_count + 1
    /\ DOMAIN expansion_map' = DOMAIN expansion_map \cup {c}
    /\ expansion_map'[c] = (IF c \in DOMAIN expansion_map THEN expansion_map[c] ELSE 0) + 1
    /\ \A d \in (DOMAIN expansion_map) \ {c} : expansion_map'[d] = expansion_map[d]

C23_Step ==
    /\ SumMap(expansion_map') = expanded_count'
    /\ \/ expanded_count' = expanded_count /\ expansion_map' = expansion_map
       \/ pc = "running" /\ \E c \in HeldCells : CountedOnce(c)
    /\ (pc = "running" /\ OPEN' # OPEN) => expanded_count' = expanded_count + 1

\* C23: in every planner a step that pops a record from the frontier adds
\* exactly 1 to expanded_count and exactly 1 to the expansion_map entry of a
\* cell the frontier held, and leaves every other entry alone; a step that
\* pops nothing changes neither; and expanded_count equals the sum of the
\* expansion_map values after every step, in a first and in a later call.
C23_CountPerPop == [][C23_Step]_vars

\* a tree-based planner in its second call has expanded one cell three times
\* and other cells as well
C23_Witness ==
    /\ kind \in TreeKinds
    /\ pc = "running"
    /\ Len(history) = 1
    /\ Cardinality(DOMAIN expansion_map) >= 2
    /\ \E c \in DOMAIN expansion_map : expansion_map[c] >= 3

\* the cells a step has inserted into the frontier, in insertion order: what
\* the frontier holds after the step beyond what was left after the pop
InsertedRecords ==
    IF kind \in {"AStarGraph", "AStarTree"} THEN <<>>
    ELSE SubSeq(OPEN', Len(OPEN), Len(OPEN'))

Inserted ==
    IF expanded_count' = expanded_count THEN <<>>
    ELSE IF kind = "AStarGraph"
    THEN LET c == CHOOSE x \in Cells : CountedOnce(x)
             IsNew(v) == v \in (DOMAIN OPEN') \ (DOMAIN OPEN)
         IN  SelectSeq(FreeAlong(c, 1), IsNew)
    ELSE IF kind = "AStarTree"
    THEN LET new == OPEN' \ OPEN
         IN  [i \in 1 .. Cardinality(new) |-> (CHOOSE r \in new : r[3] = counter + i - 1)[4]]
    ELSE IF kind = "BFSGraph" THEN InsertedRecords
    ELSE IF kind = "DFSTree"
    THEN [i \in 1 .. Len(InsertedRecords) |-> NODES'[InsertedRecords[i]].state]
    ELSE [i \in 1 .. Len(InsertedRecords) |-> InsertedRecords[i][1]]

C24_Step ==
    visualizer.attached =>
        /\ \A c \in Cells :
              CountedOnce(c) => visualizer'.explored = Append(visualizer.explored, c)
        /\ expanded_count' = expanded_count => visualizer'.explored = visualizer.explored
        /\ pc = "running" => visualizer'.frontier = visualizer.frontier \o Inserted

\* C24: with a visualizer attached, every iteration that counts an expansion
\* passes the counted cell to draw_explored once and no other step calls it,
\* and every iteration passes to draw_frontier exactly the cells it inserts
\* into the frontier, in insertion order; this for all six planners.
C24_CallbacksMatchExpansions == [][C24_Step]_vars

\* C25: asked the same question on the same grid, A* tree-based returns a
\* path whenever A* graph-based does, and a path A* tree-based returns has the
\* cost of the path A* graph-based returned, which is the least cost of any
\* path (history[1] is the graph-based call, history[2] the tree-based one).
C25_TreeMatchesGraph ==
    Len(history) = 2 =>
        /\ history[1].result.tag = "path" => history[2].result.tag = "path"
        /\ history[2].result.tag = "path" =>
              /\ history[1].result.tag = "path"
              /\ PathCost(history[2].result.path) = PathCost(history[1].result.path)
              /\ PathCost(history[2].result.path) = DijkstraCost(start, goal)

\* both planners have returned a path around an obstacle, the tree-based one
\* after expanding more cells than the graph-based one, some of them twice
C25_Witness ==
    /\ Len(history) = 2
    /\ history[2].result.tag = "path"
    /\ Len(history[2].result.path) >= 4
    /\ obstacles # {}
    /\ history[2].expanded_count > history[1].expanded_count
    /\ \E c \in DOMAIN history[2].expansion_map : history[2].expansion_map[c] >= 2

\* C26: whenever A* graph-based is at the top of its loop, OPEN and CLOSED
\* are disjoint, the priority of every cell in OPEN is the f of its node and
\* that f is g + heuristic(cell, goal), and every node but the start node has
\* a parent in CLOSED with node.g = parent.g + the cost of the step between
\* them.
C26_AStarGraphBookkeeping ==
    (kind = "AStarGraph" /\ pc = "running") =>
        /\ (DOMAIN OPEN) \cap CLOSED = {}
        /\ \A c \in DOMAIN OPEN :
              /\ OPEN[c] = NODES[c].f
              /\ NODES[c].f = CostAdd(NODES[c].g, heuristic(c, goal))
        /\ \A c \in (DOMAIN NODES) \ {start} :
              /\ NODES[c].parent \in CLOSED
              /\ NODES[c].g = CostAdd(NODES[NODES[c].parent].g, StepCost(NODES[c].parent, c))

\* A* graph-based is at the top of its loop with a cell in OPEN that has been
\* reached from two expanded cells, its parent not being the start
C26_Witness ==
    /\ kind = "AStarGraph"
    /\ pc = "running"
    /\ Cardinality(CLOSED) >= 2
    /\ \E c \in DOMAIN OPEN :
          /\ NODES[c].parent # start
          /\ \E q \in CLOSED \ {NODES[c].parent} : c \in Succ(q)

\* the visit id a walk started from: the largest one it has met
WalkStartVid ==
    LET vids == {r[2] : r \in visited} \cup {cur_vid}
    IN  CHOOSE v \in vids : \A w \in vids : w <= v

\* C27: in A*-tree and BFS-tree every parent-table entry written for a child
\* record (cell, vid) names a record (pcell, pvid) with 0 <= pvid < vid from
\* whose cell the child cell is one legal step away; a walk of
\* reconstruct_path_3d over the table plan() has built ends at the start
\* cell after at most vid links, never in the 'loop detected' or 'missing
\* parent link' branch.
C27_ParentTableWellFounded ==
    kind \in {"AStarTree", "BFSTree"} =>
        /\ \A r \in (DOMAIN parent) \ {<<start, 0>>} :
              /\ 0 <= parent[r][2]
              /\ parent[r][2] < r[2]
              /\ r[1] \in Succ(parent[r][1])
        /\ (pc = "done" /\ path # <<>>) =>
              /\ exit = "start"
              /\ Len(path) <= WalkStartVid + 1
              /\ result = PathResult(Reverse(path))

\* a walk from a goal record over a table built by plan() has ended at the
\* start after three links or more, the goal cell being recorded under
\* several visit ids
C27_Witness ==
    /\ kind \in {"AStarTree", "BFSTree"}
    /\ pc = "done"
    /\ exit = "start"
    /\ Len(path) >= 4
    /\ Cardinality({r \in DOMAIN parent : r[1] = goal}) >= 2

\* C28: every cell of a path returned by any of the six planners is inside
\* the grid, is not an obstacle and is not inflated, whatever start and goal
\* were passed to plan().
C28_PathCellsFree ==
    (Returned /\ result.tag = "path") =>
        \A i \in 1 .. Len(result.path) : FreeCell(result.path[i])

\* C29: no path returned by any of the six planners holds the same cell at
\* two positions, the tree-based planners included.
C29_ReturnedPathSimple ==
    (Returned /\ result.tag = "path") => NoRepeat(result.path)

\* a tree-based planner has returned a path of three steps or more in a call
\* in which it expanded some cell more than once
C29_Witness ==
    /\ kind \in TreeKinds
    /\ Returned
    /\ result.tag = "path"
    /\ Len(result.path) >= 4
    /\ \E c \in DOMAIN expansion_map : expansion_map[c] >= 2

====
